---- MODULE Spec2Model ----
(***************************************************************************)
(* Model of server/main.py: a FastAPI application object `app` created     *)
(* with root_path "/api/v1/resource", one CORSMiddleware registered with   *)
(* allow_origins, allow_methods and allow_headers ["*"] and                *)
(* allow_credentials True, and one route GET /healthz whose endpoint       *)
(* returns {"message": "Service healthy."}.                                *)
(*                                                                         *)
(* What the three statements of main.py mean is given by the framework     *)
(* they call (FastAPI 0.115 / Starlette 0.46): the application object,     *)
(* the router's matching of a request path and method against the          *)
(* registered routes, and the CORS middleware's three branches (no Origin, *)
(* preflight, simple request).  Each request is followed from the moment   *)
(* the server hands it to `app` until the response start is sent.          *)
(*                                                                         *)
(* A path is the sequence of its segments: "/api/v1/resource/healthz" is   *)
(* <<"api","v1","resource","healthz">>, a trailing slash is a last segment *)
(* "", the path "/" is <<"">> and the empty path is <<>>.                  *)
(***************************************************************************)
EXTENDS Naturals, Sequences, FiniteSets

VARIABLES app, conns

vars == <<app, conns>>

\* ---------------------------------------------------------------- bounds
\* Number of connections the listener serves at the same time.
NumConns == 2

\* ------------------------------------------------------------- constants
\* A header that is not present (request or response).
Absent == "<absent>"

HealthPayload == "{\"message\":\"Service healthy.\"}"
NotFoundBody == "{\"detail\":\"Not Found\"}"
MethodNotAllowedBody == "{\"detail\":\"Method Not Allowed\"}"

\* starlette.middleware.cors.ALL_METHODS, what allow_methods=["*"] stands for.
ALL_METHODS == {"DELETE", "GET", "HEAD", "OPTIONS", "PATCH", "POST", "PUT"}

\* FastAPI(root_path="/api/v1/resource")
root_path == <<"api", "v1", "resource">>

\* The routes FastAPI() registers by itself (openapi_url, docs_url,
\* swagger_ui_oauth2_redirect_url, redoc_url keep their defaults); added
\* with Router.add_route, whose routes answer GET and HEAD.
DocsRoutes ==
    << [path |-> <<"openapi.json">>, methods |-> {"GET", "HEAD"}, endpoint |-> "openapi"],
       [path |-> <<"docs">>, methods |-> {"GET", "HEAD"}, endpoint |-> "swagger_ui_html"],
       [path |-> <<"docs", "oauth2-redirect">>, methods |-> {"GET", "HEAD"},
        endpoint |-> "swagger_ui_redirect"],
       [path |-> <<"redoc">>, methods |-> {"GET", "HEAD"}, endpoint |-> "redoc_html"] >>

\* Mutant: the route is registered for every method.
HealthzRoute_any_method ==
    [path |-> <<"healthz">>, methods |-> ALL_METHODS, endpoint |-> "healthz"]

\* @app.get("/healthz"): the route appended by the decorator.
HealthzRoute == [path |-> <<"healthz">>, methods |-> {"GET"}, endpoint |-> "healthz"]

\* app.add_middleware(CORSMiddleware, ...): the options as written.
CORSMiddleware ==
    [allow_origins |-> {"*"},
     allow_credentials |-> TRUE,
     allow_methods |-> {"*"},
     allow_headers |-> {"*"}]

\* The application object once the module is imported.
InitApp ==
    [root_path |-> root_path,
     user_middleware |-> << CORSMiddleware >>,
     routes |-> DocsRoutes \o << HealthzRoute >>,
     redirect_slashes |-> TRUE]

\* Mutant: the endpoint reports whether it has answered before, from state
\* kept between requests.
healthz_counting ==
    IF \E c \in DOMAIN conns : conns[c].pc = "done"
    THEN "{\"message\":\"Service healthy.\",\"again\":true}"
    ELSE HealthPayload

\* def healthz(): return { "message": "Service healthy." }
healthz == HealthPayload

\* ---------------------------------------------------------------- inputs
HealthPath == root_path \o <<"healthz">>

Methods == {"GET", "HEAD", "POST", "PUT", "DELETE", "PATCH", "OPTIONS"}

Paths ==
    { HealthPath,
      <<"healthz">>,
      root_path \o <<"unknown">>,
      root_path \o <<"healthz", "">>,
      root_path \o <<"docs">>,
      root_path }

Origins == {"https://a.example", "https://b.example"}

Queries == {"", "verbose=1"}

Cookies == {Absent, "session=1"}

\* Access-Control-Request-Method values; TRACE is a method outside ALL_METHODS.
RequestedMethods == {Absent, "GET", "PUT", "TRACE"}

\* Access-Control-Request-Headers values.
RequestedHeaders == {Absent, "x-custom, authorization"}

Requests ==
    [method : Methods, path : Paths, query : Queries,
     origin : Origins \cup {Absent}, cookie : Cookies,
     acrm : RequestedMethods, acrh : RequestedHeaders]

\* ------------------------------------------------------------- responses
NoHeaders ==
    [acao |-> Absent, acac |-> Absent, acam |-> {}, acah |-> Absent,
     acma |-> Absent, vary |-> {}, allow |-> {}, location |-> <<>>]

Response(status, body, headers) ==
    [status |-> status, body |-> body, headers |-> headers]

NoResponse == Response(0, "", NoHeaders)

NoRequest ==
    [method |-> Absent, path |-> <<>>, query |-> "", origin |-> Absent,
     cookie |-> Absent, acrm |-> Absent, acrh |-> Absent]

\* --------------------------------------------------------------- routing
IsPrefix(p, s) == Len(p) <= Len(s) /\ SubSeq(s, 1, Len(p)) = p

\* Mutant: the root path is never removed, so routes are matched against the
\* whole path.
get_route_path_unstripped(root, path) == path

\* starlette._utils.get_route_path: the path the routes are matched against.
\* The root path is removed when the path is the root path or continues it
\* with "/", that is, when the root path's segments begin the path's.
get_route_path(root, path) ==
    IF root = <<>> THEN path
    ELSE IF ~IsPrefix(root, path) THEN path
    ELSE SubSeq(path, Len(root) + 1, Len(path))

\* Route.matches: the route's path pattern has no parameters, so it matches
\* the one path it was registered with; the method decides FULL or PARTIAL.
matches(route, root, method, path) ==
    IF get_route_path(root, path) # route.path THEN "NONE"
    ELSE IF method \notin route.methods THEN "PARTIAL"
    ELSE "FULL"

\* The endpoint functions: healthz of main.py, and the framework's own
\* documentation pages, whose bodies are named, not spelled out.
Endpoint(name) ==
    IF name = "healthz" THEN healthz ELSE "<" \o name \o ">"

\* Route.handle: 405 with an Allow header when the method is not the
\* route's, the endpoint's return value as a 200 JSON response otherwise.
handle(route, method) ==
    IF method \notin route.methods
    THEN Response(405, MethodNotAllowedBody, [NoHeaders EXCEPT !.allow = route.methods])
    ELSE Response(200, Endpoint(route.endpoint), NoHeaders)

\* str.rstrip("/") on a path: every trailing empty segment is dropped.
RECURSIVE rstrip(_)
rstrip(path) ==
    IF path # <<>> /\ path[Len(path)] = ""
    THEN rstrip(SubSeq(path, 1, Len(path) - 1))
    ELSE path

\* The path Router.app tries when nothing matched: the trailing slash toggled.
redirect_path(root, path) ==
    LET route_path == get_route_path(root, path)
    IN IF route_path # <<>> /\ route_path[Len(route_path)] = ""
       THEN rstrip(path)
       ELSE Append(path, "")

\* Mutant: the redirect is sent without looking for a route that matches the
\* toggled path.
redirects_unchecked(a, method, path) ==
    /\ a.redirect_slashes
    /\ get_route_path(a.root_path, path) # <<"">>

\* Router.app's redirect test: slashes are redirected, the path matched is
\* not "/", and some route matches the path with the trailing slash toggled.
redirects(a, method, path) ==
    /\ a.redirect_slashes
    /\ get_route_path(a.root_path, path) # <<"">>
    /\ \E i \in DOMAIN a.routes :
          matches(a.routes[i], a.root_path, method,
                  redirect_path(a.root_path, path)) # "NONE"

\* Router.app: the first FULL match handles the request, else the first
\* PARTIAL match (405), else a redirect to the path with the trailing slash
\* toggled when a route matches that, else the default 404.
Router(a, method, path) ==
    LET idx(kind) == { i \in DOMAIN a.routes :
                         matches(a.routes[i], a.root_path, method, path) = kind }
        first(S) == CHOOSE i \in S : \A j \in S : i <= j
        full == idx("FULL")
        partial == idx("PARTIAL")
        toggled == redirect_path(a.root_path, path)
    IN IF full # {} THEN handle(a.routes[first(full)], method)
       ELSE IF partial # {} THEN handle(a.routes[first(partial)], method)
       ELSE IF redirects(a, method, path)
            THEN Response(307, "", [NoHeaders EXCEPT !.location = toggled])
       ELSE Response(404, NotFoundBody, NoHeaders)

\* ------------------------------------------------------- CORS middleware
\* CORSMiddleware.__init__: what the options are turned into.
allow_methods(o) ==
    IF "*" \in o.allow_methods THEN ALL_METHODS ELSE o.allow_methods

allow_all_origins(o) == "*" \in o.allow_origins

\* Mutant: "*" is taken as the name of a header, not as every header.
allow_all_headers_literal(o) == FALSE

allow_all_headers(o) == "*" \in o.allow_headers

preflight_explicit_allow_origin(o) ==
    ~allow_all_origins(o) \/ o.allow_credentials

\* Mutant: credentials are not announced when every origin is allowed.
simple_headers_no_credentials(o) ==
    [acao |-> IF allow_all_origins(o) THEN "*" ELSE Absent,
     acac |-> IF o.allow_credentials /\ ~allow_all_origins(o) THEN "true" ELSE Absent]

\* Headers set on every non-preflight response to a request with an Origin.
simple_headers(o) ==
    [acao |-> IF allow_all_origins(o) THEN "*" ELSE Absent,
     acac |-> IF o.allow_credentials THEN "true" ELSE Absent]

\* Headers every preflight response starts from.  With allow_headers ["*"]
\* no Access-Control-Allow-Headers is preset (it mirrors the request later).
preflight_headers(o) ==
    [NoHeaders EXCEPT
       !.vary = IF preflight_explicit_allow_origin(o) THEN {"Origin"} ELSE {},
       !.acao = IF preflight_explicit_allow_origin(o) THEN Absent ELSE "*",
       !.acam = allow_methods(o),
       !.acma = "600",
       !.acac = IF o.allow_credentials THEN "true" ELSE Absent]

\* ", ".join(failures)
RECURSIVE join(_)
join(words) ==
    IF Len(words) = 0 THEN ""
    ELSE IF Len(words) = 1 THEN words[1]
    ELSE words[1] \o ", " \o join(Tail(words))

is_allowed_origin(o, origin) ==
    allow_all_origins(o) \/ origin \in o.allow_origins

\* CORSMiddleware.preflight_response.  Requested headers can only fail when
\* not every header is allowed, and the options list no header by name.
preflight_response(o, req) ==
    LET h1 == IF is_allowed_origin(o, req.origin) /\ preflight_explicit_allow_origin(o)
              THEN [preflight_headers(o) EXCEPT !.acao = req.origin]
              ELSE preflight_headers(o)
        headers == IF allow_all_headers(o) /\ req.acrh # Absent
                   THEN [h1 EXCEPT !.acah = req.acrh]
                   ELSE h1
        failures ==
            (IF is_allowed_origin(o, req.origin) THEN << >> ELSE << "origin" >>)
            \o (IF req.acrm \notin allow_methods(o) THEN << "method" >> ELSE << >>)
            \o (IF ~allow_all_headers(o) /\ req.acrh # Absent
                THEN << "headers" >> ELSE << >>)
    IN IF failures # << >>
       THEN Response(400, "Disallowed CORS " \o join(failures), headers)
       ELSE Response(200, "OK", headers)

\* CORSMiddleware.allow_explicit_origin
allow_explicit_origin(headers, origin) ==
    [headers EXCEPT !.acao = origin, !.vary = @ \cup {"Origin"}]

\* The header changes CORSMiddleware.send makes to the response start of a
\* simple request: the simple headers are written over the response's, and
\* the origin is echoed when the request carries a cookie.
cors_headers(o, req, headers) ==
    LET h1 == [headers EXCEPT
                 !.acao = IF simple_headers(o).acao # Absent
                          THEN simple_headers(o).acao ELSE @,
                 !.acac = IF simple_headers(o).acac # Absent
                          THEN simple_headers(o).acac ELSE @]
        has_cookie == req.cookie # Absent
    IN IF allow_all_origins(o) /\ has_cookie
       THEN allow_explicit_origin(h1, req.origin)
       ELSE IF ~allow_all_origins(o) /\ is_allowed_origin(o, req.origin)
       THEN allow_explicit_origin(h1, req.origin)
       ELSE h1

\* Mutant: error responses are sent on without the CORS headers.
send_success_only(o, req, resp) ==
    IF resp.status >= 400 THEN resp
    ELSE [resp EXCEPT !.headers = cors_headers(o, req, resp.headers)]

\* Mutant: a request with a cookie is refused when every origin is allowed.
send_reject_credentialed(o, req, resp) ==
    IF allow_all_origins(o) /\ req.cookie # Absent
    THEN Response(403, "Disallowed CORS origin", cors_headers(o, req, NoHeaders))
    ELSE [resp EXCEPT !.headers = cors_headers(o, req, resp.headers)]

\* CORSMiddleware.send: status and body pass through, the headers change.
send(o, req, resp) ==
    [resp EXCEPT !.headers = cors_headers(o, req, resp.headers)]

\* ----------------------------------------------------------- connections
\* A connection is idle, or carries one request through the middleware
\* stack: "cors" (CORSMiddleware.__call__ is about to run), "router" (the
\* inner application is about to run, with the send callable it was given),
\* "send" (the response start is passing through CORSMiddleware.send),
\* "done" (the response start has reached the server).
Idle == [pc |-> "idle", req |-> NoRequest, resp |-> NoResponse, send |-> "server"]

\* The options of the middleware that app.add_middleware registered.
Options == app.user_middleware[1]

\* The requests the connections of the concurrent specification carry: GET
\* of the health path and of an unknown path with every Origin and Cookie,
\* and preflights for PUT to both paths from every origin.
ConcRequests ==
    { r \in Requests :
        /\ r.path \in {HealthPath, root_path \o <<"unknown">>}
        /\ r.query = ""
        /\ r.acrh = Absent
        /\ \/ r.method = "GET" /\ r.acrm = Absent
           \/ /\ r.method = "OPTIONS" /\ r.acrm = "PUT"
              /\ r.origin # Absent /\ r.cookie = Absent }

\* The server hands a request to app(scope, receive, send).
Receive(c, reqs) ==
    /\ conns[c].pc = "idle"
    /\ \E r \in reqs :
          conns' = [conns EXCEPT ![c] = [Idle EXCEPT !.pc = "cors", !.req = r]]
    /\ UNCHANGED app

\* CORSMiddleware.__call__, no Origin header: the request goes to the inner
\* application with the server's send.
PassThrough(c) ==
    /\ conns[c].pc = "cors"
    /\ conns[c].req.origin = Absent
    /\ conns' = [conns EXCEPT ![c].pc = "router", ![c].send = "server"]
    /\ UNCHANGED app

\* CORSMiddleware.__call__, OPTIONS with Access-Control-Request-Method: the
\* middleware answers by itself.
Preflight(c) ==
    /\ conns[c].pc = "cors"
    /\ conns[c].req.origin # Absent
    /\ conns[c].req.method = "OPTIONS"
    /\ conns[c].req.acrm # Absent
    /\ conns' = [conns EXCEPT ![c].pc = "done",
                              ![c].resp = preflight_response(Options, conns[c].req)]
    /\ UNCHANGED app

\* CORSMiddleware.simple_response: the request goes to the inner application
\* with send wrapped by CORSMiddleware.send.
SimpleResponse(c) ==
    /\ conns[c].pc = "cors"
    /\ conns[c].req.origin # Absent
    /\ ~(conns[c].req.method = "OPTIONS" /\ conns[c].req.acrm # Absent)
    /\ conns' = [conns EXCEPT ![c].pc = "router", ![c].send = "cors"]
    /\ UNCHANGED app

\* The router answers; the response start goes to the send it was given.
Route(c) ==
    /\ conns[c].pc = "router"
    /\ conns' = [conns EXCEPT
                   ![c].resp = Router(app, conns[c].req.method, conns[c].req.path),
                   ![c].pc = IF conns[c].send = "cors" THEN "send" ELSE "done"]
    /\ UNCHANGED app

\* Mutant: the request headers are kept on the middleware object, where a
\* request that is in the application at the same time replaces them.
request_headers_shared(c) ==
    LET others == { d \in DOMAIN conns :
                      d # c /\ conns[d].send = "cors" /\ conns[d].pc \in {"router", "send"} }
    IN IF others = {} THEN conns[c].req
       ELSE conns[CHOOSE d \in others : TRUE].req

\* The request headers simple_response binds into the send it passes on
\* (functools.partial): those of the connection's own request.
request_headers(c) == conns[c].req

\* CORSMiddleware.send adds the CORS headers to the response start.
Send(c) ==
    /\ conns[c].pc = "send"
    /\ conns' = [conns EXCEPT ![c].resp = send(Options, request_headers(c), conns[c].resp),
                              ![c].pc = "done"]
    /\ UNCHANGED app

\* The response is complete and the connection takes the next request.
Close(c) ==
    /\ conns[c].pc = "done"
    /\ conns' = [conns EXCEPT ![c] = Idle]
    /\ UNCHANGED app

\* One request at a time, any request.
Init ==
    /\ app = InitApp
    /\ conns = [c \in {1} |-> Idle]

Next ==
    \/ \E c \in DOMAIN conns : Receive(c, Requests)
    \/ \E c \in DOMAIN conns : PassThrough(c)
    \/ \E c \in DOMAIN conns : Preflight(c)
    \/ \E c \in DOMAIN conns : SimpleResponse(c)
    \/ \E c \in DOMAIN conns : Route(c)
    \/ \E c \in DOMAIN conns : Send(c)
    \/ \E c \in DOMAIN conns : Close(c)

Spec == Init /\ [][Next]_vars

\* NumConns requests at a time, interleaved in every order.
InitConc ==
    /\ app = InitApp
    /\ conns = [c \in 1..NumConns |-> Idle]

NextConc ==
    \/ \E c \in DOMAIN conns : Receive(c, ConcRequests)
    \/ \E c \in DOMAIN conns : PassThrough(c)
    \/ \E c \in DOMAIN conns : Preflight(c)
    \/ \E c \in DOMAIN conns : SimpleResponse(c)
    \/ \E c \in DOMAIN conns : Route(c)
    \/ \E c \in DOMAIN conns : Send(c)
    \/ \E c \in DOMAIN conns : Close(c)

SpecConc == InitConc /\ [][NextConc]_vars

\* ================================================================ claims
Done(c) == conns[c].pc = "done"

\* A cross-origin preflight: OPTIONS with Origin and Access-Control-Request-Method.
IsPreflight(r) == r.method = "OPTIONS" /\ r.origin # Absent /\ r.acrm # Absent

IsHealthGet(r) == r.method = "GET" /\ r.path = HealthPath

\* The response the application as constructed gives a request handled
\* with no other request in the system.
Alone(r) ==
    IF r.origin = Absent THEN Router(InitApp, r.method, r.path)
    ELSE IF IsPreflight(r) THEN preflight_response(CORSMiddleware, r)
    ELSE send(CORSMiddleware, r, Router(InitApp, r.method, r.path))

\* The path, with or without the root path prefix and with trailing slashes
\* ignored, is the path of a registered route.
RegisteredPath(p) ==
    \E i \in DOMAIN InitApp.routes :
        rstrip(get_route_path(root_path, p)) = InitApp.routes[i].path

\* C1: every GET of /api/v1/resource/healthz, whatever its headers and
\* query, is answered 200 with the body {"message": "Service healthy."}.
C1_HealthzAlways200 ==
    \A c \in DOMAIN conns :
        Done(c) /\ IsHealthGet(conns[c].req)
            => conns[c].resp.status = 200 /\ conns[c].resp.body = HealthPayload

C1_Witness ==
    \E c \in DOMAIN conns :
        /\ Done(c) /\ IsHealthGet(conns[c].req)
        /\ conns[c].req.origin # Absent /\ conns[c].req.cookie # Absent
        /\ conns[c].req.query # "" /\ conns[c].req.acrh # Absent
        /\ conns[c].resp.status = 200

\* C2 as claimed: every response, on every route and for every request,
\* carries Access-Control-Allow-Origin and Access-Control-Allow-Credentials.
C2_EveryResponseHasCors ==
    \A c \in DOMAIN conns :
        Done(c) => /\ conns[c].resp.headers.acao # Absent
                   /\ conns[c].resp.headers.acac # Absent

\* C2 amended: every response to a request that carries an Origin header,
\* on every route, preflight or not, carries Access-Control-Allow-Origin and
\* Access-Control-Allow-Credentials (a preflight response also
\* Access-Control-Allow-Methods); a request without Origin gets none of them.
C2_CorsWhenOriginSent ==
    \A c \in DOMAIN conns :
        Done(c) =>
            IF conns[c].req.origin # Absent
            THEN /\ conns[c].resp.headers.acao # Absent
                 /\ conns[c].resp.headers.acac # Absent
                 /\ IsPreflight(conns[c].req) => conns[c].resp.headers.acam # {}
            ELSE /\ conns[c].resp.headers.acao = Absent
                 /\ conns[c].resp.headers.acac = Absent

C2_Witness ==
    \E c \in DOMAIN conns :
        /\ Done(c) /\ conns[c].req.origin # Absent
        /\ conns[c].req.method = "GET" /\ conns[c].resp.status = 404
        /\ conns[c].resp.headers.acao = "*"

\* C3 as claimed: every request whose path is not the health path is
\* answered 404, with a body that is not the health payload.
C3_OtherPaths404 ==
    \A c \in DOMAIN conns :
        Done(c) /\ conns[c].req.path # HealthPath
            => conns[c].resp.status = 404 /\ conns[c].resp.body # HealthPayload

\* C3 amended: every request that is not a preflight and whose path, with or
\* without the root path prefix and with trailing slashes ignored, is the
\* path of no registered route (/healthz, /openapi.json, /docs,
\* /docs/oauth2-redirect, /redoc) is answered 404 with the not-found body,
\* never the health payload.
C3_UnroutedPaths404 ==
    \A c \in DOMAIN conns :
        Done(c) /\ ~IsPreflight(conns[c].req) /\ ~RegisteredPath(conns[c].req.path)
            => /\ conns[c].resp.status = 404
               /\ conns[c].resp.body = NotFoundBody
               /\ conns[c].resp.body # HealthPayload

C3_Witness ==
    \E c \in DOMAIN conns :
        /\ Done(c) /\ conns[c].req.path = root_path \o <<"unknown">>
        /\ conns[c].req.method = "GET" /\ conns[c].req.origin # Absent
        /\ conns[c].resp.status = 404

C5_AllowOriginStarOrReflected ==
    \A c \in DOMAIN conns :
        Done(c) /\ conns[c].req.origin # Absent
            => /\ conns[c].resp.headers.acao \in {"*", conns[c].req.origin}
               /\ conns[c].resp.headers.acac = "true"

C5_Witness ==
    \E c \in DOMAIN conns :
        /\ Done(c) /\ conns[c].req.origin = "https://b.example"
        /\ ~IsPreflight(conns[c].req)
        /\ conns[c].resp.headers.acao = "https://b.example"

\* The preflight response permits the origin, the method and the headers
\* the preflight asks for.
Permits(r, resp) ==
    /\ resp.status = 200
    /\ resp.headers.acao \in {"*", r.origin}
    /\ r.acrm \in resp.headers.acam
    /\ r.acrh # Absent => resp.headers.acah = r.acrh

\* C6 as claimed: every preflight, for every origin, requested method and
\* requested headers, is answered with a success that permits them.
C6_EveryPreflightAllowed ==
    \A c \in DOMAIN conns :
        Done(c) /\ IsPreflight(conns[c].req)
            => Permits(conns[c].req, conns[c].resp)

\* C6 amended: every preflight that requests one of the methods DELETE, GET,
\* HEAD, OPTIONS, PATCH, POST, PUT is answered, for every origin and every
\* requested headers, with a success that permits them; a preflight that
\* requests any other method is rejected with status 400.
C6_PreflightAllowedForStandardMethods ==
    \A c \in DOMAIN conns :
        Done(c) /\ IsPreflight(conns[c].req)
            => IF conns[c].req.acrm \in ALL_METHODS
               THEN Permits(conns[c].req, conns[c].resp)
               ELSE conns[c].resp.status = 400

C6_Witness ==
    \E c \in DOMAIN conns :
        /\ Done(c) /\ IsPreflight(conns[c].req)
        /\ conns[c].req.acrm = "PUT" /\ conns[c].req.acrh # Absent
        /\ conns[c].req.path # HealthPath
        /\ conns[c].resp.status = 200

\* C7: requests are independent: in every interleaving of the requests in
\* the system, each request is answered as it would be if handled alone.
C7_RequestsIndependent ==
    \A c \in DOMAIN conns : Done(c) => conns[c].resp = Alone(conns[c].req)

C7_Witness ==
    \E c, d \in DOMAIN conns :
        /\ Done(c) /\ conns[c].req.cookie # Absent
        /\ conns[c].req.origin = "https://a.example"
        /\ conns[d].pc = "send" /\ conns[d].req.origin = "https://b.example"

\* C8: two GET requests to the same path that differ only in the Origin and
\* Cookie headers are answered with the same status and the same body.
C8_OriginDoesNotChangeAnswer ==
    \A c, d \in DOMAIN conns :
        /\ Done(c) /\ Done(d)
        /\ conns[c].req.method = "GET"
        /\ [conns[c].req EXCEPT !.origin = Absent, !.cookie = Absent]
             = [conns[d].req EXCEPT !.origin = Absent, !.cookie = Absent]
        => /\ conns[c].resp.status = conns[d].resp.status
           /\ conns[c].resp.body = conns[d].resp.body

C8_Witness ==
    \E c, d \in DOMAIN conns :
        /\ Done(c) /\ Done(d)
        /\ conns[c].req.method = "GET" /\ conns[d].req.method = "GET"
        /\ conns[c].req.path = conns[d].req.path
        /\ conns[c].req.origin = Absent
        /\ conns[d].req.origin # Absent /\ conns[d].req.cookie # Absent
        /\ conns[c].resp.headers # conns[d].resp.headers

\* C9: a request to the health path that is not a preflight and whose method
\* is not GET (POST, PUT, DELETE, PATCH, and HEAD and OPTIONS too) is
\* answered 405 method-not-allowed, never 200 with the health payload.
C9_HealthzGetOnly ==
    \A c \in DOMAIN conns :
        /\ Done(c) /\ conns[c].req.path = HealthPath
        /\ conns[c].req.method # "GET" /\ ~IsPreflight(conns[c].req)
        => /\ conns[c].resp.status = 405
           /\ conns[c].resp.body = MethodNotAllowedBody
           /\ conns[c].resp.body # HealthPayload

C9_Witness ==
    \E c \in DOMAIN conns :
        /\ Done(c) /\ conns[c].req.path = HealthPath
        /\ conns[c].req.method = "PATCH" /\ conns[c].req.origin # Absent
        /\ conns[c].resp.status = 405
        /\ conns[c].resp.headers.allow = {"GET"}

====
